---- MODULE Spec2Model ----
(***************************************************************************)
(* Model of main.py of gcp-security-audit: the Flask routes dashboard and  *)
(* get_progress, the background thread body run_audit, the module-level    *)
(* progress dict and the lock that guards it.                              *)
(*                                                                         *)
(* Request handlers run concurrently (Flask serves each request on its own *)
(* thread), and every statement of a handler or of run_audit that touches  *)
(* shared state is one step.  A `with lock:` block is two steps: the       *)
(* acquisition, and the body together with the release.  What leaves the   *)
(* process (an HTTP response, the uploaded blob) is the value of `out`     *)
(* in the state after the step that sends it.                              *)
(***************************************************************************)
EXTENDS Integers, Sequences, FiniteSets, TLC

\* Number of HTTP requests served in one behaviour, each on its own thread.
MaxRequests == 2
\* Number of threading.Thread objects dashboard may create in one behaviour.
MaxRuns == 2

Requests == 1..MaxRequests
Runs == 1..MaxRuns
\* Identity of a progress dict: 0 is the dict of line 16, t the one run t installs.
Dicts == 0..MaxRuns

\* The registry: the list `checks` of run_audit, in registration order.
checks ==
  << "check_sql_public_ips", "check_gke_public_nodes", "check_buckets_public",
     "check_service_accounts_with_owner", "check_vms" >>

\* The category each check passes to mk_result.
category ==
  << "Cloud SQL", "GKE", "Cloud Storage", "IAM", "VM" >>

\* The dict mk_result builds for the check registered at index i, called by
\* run t.  The field run is the identity of the caller; resources and notes
\* depend on the cloud project only and are left out.
mk_result(i, t) == [category |-> category[i], check |-> i, run |-> t]

\* The literal {"total": n, "done": 0, "results": []} of lines 16 and 251.
NewProgress(n) == [total |-> n, done |-> 0, results |-> << >>]

\* What a step sends out of the process.  An HTTP response: the route, the
\* done and total it reports and the result cards of its HTML; an HTTP 500; the
\* blob of line 265; or nothing.
NoOutput == [kind |-> "none", by |-> 0, done |-> 0, total |-> 0, results |-> << >>]
Error500(h) == [kind |-> "error", by |-> h, done |-> 0, total |-> 0, results |-> << >>]
Blob(t, p) == [kind |-> "blob", by |-> t, done |-> p.done, total |-> p.total,
               results |-> p.results]

VARIABLES
  progress,      \* the global name `progress`: which dict it is bound to
  heap,          \* the progress dicts, by identity
  lock,          \* the holder of `lock`: <<"free">>, <<"run", t>>, <<"req", h>>
  audit_thread,  \* app.audit_thread: 0 (unset) or a thread
  thr,           \* per thread: where it is in run_audit
  idx,           \* per thread: index into checks of the loop of line 252
  hpc,           \* per request: where it is in its route
  ended,         \* per request: the thread line 273 found ended, 0 if none
  started,       \* per request: its call of Thread.start() returned normally
  done,          \* per request: dashboard's local `done`
  total,         \* per request: dashboard's local `total`
  results,       \* per request: dashboard's local `results`, a reference
  out            \* what the last step sent out of the process

vars == << progress, heap, lock, audit_thread, thr, idx,
           hpc, ended, started, done, total, results, out >>

runVars == << thr, idx >>
localVars == << ended, started, done, total, results >>

Free == << "free" >>

\* threading.Thread.is_alive(): true from start() until run_audit returns or raises.
is_alive(t) == thr[t] \in {"r250", "r251", "r253", "r255", "r258"}

\* The call check() of line 253 is in progress in thread t.
InCheck(t) == thr[t] = "r253"

\* The module as imported: line 16 binds progress to a dict with total 5 (dict
\* 0; the dicts of threads not yet run are placeholders), line 17 makes the
\* lock, app has no audit_thread attribute, no request has arrived.
Init ==
  /\ progress = 0
  /\ heap = [d \in Dicts |-> NewProgress(5)]
  /\ lock = Free
  /\ audit_thread = 0
  /\ thr = [t \in Runs |-> "none"]
  /\ idx = [t \in Runs |-> 1]
  /\ hpc = [h \in Requests |-> "new"]
  /\ ended = [h \in Requests |-> 0]
  /\ started = [h \in Requests |-> FALSE]
  /\ done = [h \in Requests |-> 0]
  /\ total = [h \in Requests |-> 0]
  /\ results = [h \in Requests |-> 0]
  /\ out = NoOutput

----------------------------------------------------------------------------
\* run_audit

\* Line 250: `with lock:` entered.
run_audit_lock(t) ==
  /\ thr[t] = "r250"
  /\ lock = Free
  /\ lock' = << "run", t >>
  /\ thr' = [thr EXCEPT ![t] = "r251"]
  /\ out' = NoOutput
  /\ UNCHANGED << progress, heap, audit_thread, idx, hpc, localVars >>

\* Line 251: the global is rebound to a new dict; the lock is released.
run_audit_reset(t) ==
  /\ thr[t] = "r251"
  /\ heap' = [heap EXCEPT ![t] = NewProgress(Len(checks))]
  /\ progress' = t
  /\ lock' = Free
  /\ idx' = [idx EXCEPT ![t] = 1]
  /\ thr' = [thr EXCEPT ![t] = "r253"]
  /\ out' = NoOutput
  /\ UNCHANGED << audit_thread, hpc, localVars >>

\* Lines 253-254: check() returns its result and `with lock:` is entered.  The
\* return touches nothing shared, so it is one step with the acquisition.
run_audit_check_returns(t) ==
  /\ thr[t] = "r253"
  /\ lock = Free
  /\ lock' = << "run", t >>
  /\ thr' = [thr EXCEPT ![t] = "r255"]
  /\ out' = NoOutput
  /\ UNCHANGED << progress, heap, audit_thread, idx, hpc, localVars >>

\* Line 253: check() raises (an exception its own `except Exception` does not
\* catch).  run_audit has no handler: the thread ends, its locals with it.
run_audit_check_raises(t) ==
  /\ thr[t] = "r253"
  /\ thr' = [thr EXCEPT ![t] = "crashed"]
  /\ idx' = [idx EXCEPT ![t] = 1]
  /\ out' = NoOutput
  /\ UNCHANGED << progress, heap, lock, audit_thread, hpc, localVars >>

\* AppendResult with the append lost: only the counter moves.
AppendResult_CountOnly(p, res) ==
  [p EXCEPT !.done = @ + 1]

\* Lines 255-256 on the dict p: results.append(res); done += 1.
AppendResult(p, res) ==
  [p EXCEPT !.results = Append(@, res), !.done = @ + 1]

\* Lines 255-256, on the dict the global names now, then the release and the
\* next iteration of the loop of line 252.
run_audit_append(t) ==
  /\ thr[t] = "r255"
  /\ heap' = [heap EXCEPT ![progress] = AppendResult(@, mk_result(idx[t], t))]
  /\ lock' = Free
  /\ idx' = [idx EXCEPT ![t] = @ + 1]
  /\ thr' = [thr EXCEPT ![t] = IF idx[t] = Len(checks) THEN "r258" ELSE "r253"]
  /\ out' = NoOutput
  /\ UNCHANGED << progress, audit_thread, hpc, localVars >>

\* Lines 258-265: json.dumps(progress) reads the dict the global names, without
\* the lock, and the blob is uploaded; then run_audit returns.  Nothing is
\* uploaded when RESULT_BUCKET is unset or a storage call raises.
run_audit_finish(t) ==
  /\ thr[t] = "r258"
  /\ \E uploads \in BOOLEAN :
       out' = IF uploads THEN Blob(t, heap[progress]) ELSE NoOutput
  /\ thr' = [thr EXCEPT ![t] = "dead"]
  /\ idx' = [idx EXCEPT ![t] = 1]
  /\ UNCHANGED << progress, heap, lock, audit_thread, hpc, localVars >>

run_audit(t) ==
  \/ run_audit_lock(t)
  \/ run_audit_reset(t)
  \/ run_audit_check_returns(t)
  \/ run_audit_check_raises(t)
  \/ run_audit_append(t)
  \/ run_audit_finish(t)

----------------------------------------------------------------------------
\* dashboard

\* Threads created so far, and requests that are about to create one.
Created == { t \in Runs : thr[t] # "none" }
Pending == { h \in Requests : hpc[h] = "d274" }

\* Requests are served in the order of their numbers.
Arrives(h) ==
  /\ hpc[h] = "new"
  /\ \A g \in Requests : g < h => hpc[g] # "new"

\* The condition of line 273.
NoLiveAudit == audit_thread = 0 \/ ~is_alive(audit_thread)

\* Line 273: a request enters dashboard and evaluates the condition.
dashboard_test(h) ==
  /\ Arrives(h)
  /\ NoLiveAudit => Cardinality(Created) + Cardinality(Pending) < MaxRuns
  /\ hpc' = [hpc EXCEPT ![h] = IF NoLiveAudit THEN "d274" ELSE "d276"]
  /\ ended' = [ended EXCEPT ![h] =
                 IF audit_thread # 0 /\ thr[audit_thread] \in {"dead", "crashed"}
                 THEN audit_thread ELSE 0]
  /\ out' = NoOutput
  /\ UNCHANGED << progress, heap, lock, audit_thread, runVars,
                  started, done, total, results >>

\* Line 274: a Thread is created and stored in app.audit_thread.
dashboard_create(h) ==
  /\ hpc[h] = "d274"
  /\ LET t == Cardinality(Created) + 1 IN
       /\ thr' = [thr EXCEPT ![t] = "created"]
       /\ audit_thread' = t
  /\ hpc' = [hpc EXCEPT ![h] = "d275"]
  /\ out' = NoOutput
  /\ UNCHANGED << progress, heap, lock, idx, localVars >>

\* The request returns: its locals are gone.
Return(h) ==
  /\ hpc' = [hpc EXCEPT ![h] = "returned"]
  /\ ended' = [ended EXCEPT ![h] = 0]
  /\ started' = [started EXCEPT ![h] = FALSE]
  /\ done' = [done EXCEPT ![h] = 0]
  /\ total' = [total EXCEPT ![h] = 0]
  /\ results' = [results EXCEPT ![h] = 0]

\* Line 275: app.audit_thread is read again and start() is called on it; a
\* thread that was started before raises RuntimeError and the request fails.
dashboard_start(h) ==
  /\ hpc[h] = "d275"
  /\ IF thr[audit_thread] = "created"
     THEN /\ thr' = [thr EXCEPT ![audit_thread] = "r250"]
          /\ started' = [started EXCEPT ![h] = TRUE]
          /\ hpc' = [hpc EXCEPT ![h] = "d276"]
          /\ out' = NoOutput
          /\ UNCHANGED << ended, done, total, results >>
     ELSE /\ Return(h)
          /\ out' = Error500(h)
          /\ thr' = thr
  /\ UNCHANGED << progress, heap, lock, audit_thread, idx >>

\* Line 276: `with lock:` entered.
dashboard_lock(h) ==
  /\ hpc[h] = "d276"
  /\ lock = Free
  /\ lock' = << "req", h >>
  /\ hpc' = [hpc EXCEPT ![h] = "d277"]
  /\ out' = NoOutput
  /\ UNCHANGED << progress, heap, audit_thread, runVars, localVars >>

\* Lines 277-279: the three reads; `results` is the list object itself.  The
\* lock is released.
dashboard_read(h) ==
  /\ hpc[h] = "d277"
  /\ done' = [done EXCEPT ![h] = heap[progress].done]
  /\ total' = [total EXCEPT ![h] = heap[progress].total]
  /\ results' = [results EXCEPT ![h] = progress]
  /\ lock' = Free
  /\ hpc' = [hpc EXCEPT ![h] = "d280"]
  /\ out' = NoOutput
  /\ UNCHANGED << progress, heap, audit_thread, runVars, ended, started >>

\* What the template of line 280 is rendered from: the locals done and total,
\* and the list `results` refers to, as it is when the template is rendered.
dashboard_view(h) ==
  [kind |-> "dashboard", by |-> h, done |-> done[h], total |-> total[h],
   results |-> heap[results[h]].results]

\* Line 280: the template is rendered, the lock not held, and the request
\* returns.
dashboard_render(h) ==
  /\ hpc[h] = "d280"
  /\ out' = dashboard_view(h)
  /\ Return(h)
  /\ UNCHANGED << progress, heap, lock, audit_thread, runVars >>

dashboard(h) ==
  \/ dashboard_test(h)
  \/ dashboard_create(h)
  \/ dashboard_start(h)
  \/ dashboard_lock(h)
  \/ dashboard_read(h)
  \/ dashboard_render(h)

----------------------------------------------------------------------------
\* get_progress

\* Line 284: a request enters get_progress and takes the lock.
get_progress_lock(h) ==
  /\ Arrives(h)
  /\ lock = Free
  /\ lock' = << "req", h >>
  /\ hpc' = [hpc EXCEPT ![h] = "g286"]
  /\ out' = NoOutput
  /\ UNCHANGED << progress, heap, audit_thread, runVars, localVars >>

\* What lines 286-294 read, all of it under the lock.
get_progress_view(h) ==
  [kind |-> "progress", by |-> h, done |-> heap[progress].done,
   total |-> heap[progress].total, results |-> heap[progress].results]

\* Lines 286-294: render, serialise, return; the lock is released.
get_progress_return(h) ==
  /\ hpc[h] = "g286"
  /\ out' = get_progress_view(h)
  /\ lock' = Free
  /\ Return(h)
  /\ UNCHANGED << progress, heap, audit_thread, runVars >>

get_progress(h) ==
  \/ get_progress_lock(h)
  \/ get_progress_return(h)

----------------------------------------------------------------------------
Next ==
  \/ \E t \in Runs : run_audit(t)
  \/ \E h \in Requests : dashboard(h)
  \/ \E h \in Requests : get_progress(h)

Spec == Init /\ [][Next]_vars

----------------------------------------------------------------------------
\* Properties

\* The dict the global `progress` names: what a snapshot reads.
Store == heap[progress]

\* The run_audit executions that are active.
Active == { t \in Runs : is_alive(t) }

\* The thread has ended, by returning or by an exception.
Ended(t) == thr[t] \in {"dead", "crashed"}

\* An HTTP response that carries a snapshot.
IsSnapshot(o) == o.kind \in {"dashboard", "progress"}

\* C1: single-flight: at most one run_audit execution is active at any time,
\* whatever the interleaving of the GET / requests.
C1_SingleFlight == Cardinality(Active) <= 1

\* C2: whenever the store shows a finished run (done = total), results has one
\* entry per registered check and entry i is the result of the check
\* registered at index i.
C2_FinishedRunInRegistryOrder ==
  Store.done = Store.total =>
    /\ Len(Store.results) = Len(checks)
    /\ \A i \in 1..Len(checks) : Store.results[i].check = i

\* C3: a check that raises is contained: the run it belongs to never ends
\* short of Completed; when its thread has ended, the dict it installed has
\* done = total and holds a result of category "Error".
C3_RaiseContained ==
  \A t \in Runs :
    thr[t] = "crashed" =>
      /\ heap[t].done = heap[t].total
      /\ \E i \in 1..Len(heap[t].results) : heap[t].results[i].category = "Error"

\* C4: a started run whose checks all return reaches Completed: done only
\* moves up by one, so the dict the run installed at line 251 has reached
\* done = total by the time run_audit returns exactly when its done is at
\* least its total then; a dict short of it when its run has returned stays
\* short, and no start request may make that happen.
C4_ReturnedRunCompleted ==
  \A t \in Runs : thr[t] = "dead" => heap[t].done >= heap[t].total

\* The store's counter is within its range.
C5_DoneBounded == 0 <= Store.done /\ Store.done <= Store.total

\* The store's counter does not decrease while the store holds the same run.
C5_DoneMonotonic ==
  [][progress' = progress => heap'[progress].done >= heap[progress].done]_vars

\* C5: in every state of the store 0 <= done <= total, and done never
\* decreases within one run.
C5_DoneWithinTotal == []C5_DoneBounded /\ C5_DoneMonotonic

\* C6: every snapshot dashboard or get_progress returns reports a done count
\* that is at most the number of results visible in that same snapshot.
C6_SnapshotConsistent == IsSnapshot(out) => out.done <= Len(out.results)

\* C6: a dashboard response rendered while a run is still appending: it shows
\* results, and more of them than the done it reports.
C6_Witness ==
  /\ out.kind = "dashboard"
  /\ 0 < out.done
  /\ out.done < Len(out.results)
  /\ Active # {}

\* C7: once a request's start has been accepted, the snapshot it takes no longer
\* shows the done count and results of the run that line 273 found ended (here:
\* returned): the fresh run is installed before the request goes on.
C7_StartInstallsFresh ==
  \A h \in Requests :
    (hpc[h] = "d280" /\ started[h] /\ ended[h] # 0 /\ thr[ended[h]] = "dead") =>
      ~(results[h] = ended[h] /\ done[h] > 0)

\* C8: what a reader goes on to use is fixed when the snapshot is taken: between
\* the reads of lines 277-279 and the rendering of line 280, no step of another
\* thread changes the done, total or results dashboard renders.
C8_SnapshotImmutable ==
  [][\A h \in Requests :
       (hpc[h] = "d280" /\ hpc'[h] = "d280") => dashboard_view(h)' = dashboard_view(h)]_vars

\* C9: while some check call is in progress the lock is free, or held by a
\* snapshot reader, or held by a start (the block of lines 250-251).
C9_LockFreeDuringCheck ==
  (\E t \in Runs : InCheck(t)) =>
    \/ lock = Free
    \/ lock[1] = "req"
    \/ lock[1] = "run" /\ thr[lock[2]] = "r251"

\* C10: the blob run_audit uploads is a finished run of the uploading run's own
\* checks: done = total = number of results, every result produced by that run.
C10_UploadIsOwnFinishedRun ==
  out.kind = "blob" =>
    /\ out.done = out.total
    /\ out.total = Len(out.results)
    /\ \A i \in 1..Len(out.results) : out.results[i].run = out.by

====
